---- MODULE Spec2Model ----
(***************************************************************************)
(* A model of DataCollectorAndLabeler                                      *)
(* (interactive_calibration/data_collector_and_labeler.py): the capture    *)
(* sequence saveCollection with its labeler locks, the discovery of the    *)
(* abstract transforms, and the JSON document written after each capture.  *)
(*                                                                         *)
(* Time stamps are integers (ticks).  A sensor message is identified by    *)
(* its header stamp; the labels of a labeler are identified by the stamp   *)
(* of the message they were computed for.                                  *)
(***************************************************************************)
EXTENDS Integers, Sequences, FiniteSets

\* ------------------------------------------------------------------ bounds
MaxStamp == 2          \* message header stamps range over 0..MaxStamp
MaxCollections == 2    \* no capture is triggered once data_stamp reaches this
MaxPersist == 11       \* largest number of collections of a persisted dataset

\* --------------------------------------------------------- configuration
\* config['max_duration_bekween_msgs'], in ticks
max_duration_bekween_msgs == 1

SensorNames == {"cam", "lidar"}

\* The message type each configured topic may turn out to carry
\* (msg_type is read from the topic's connection header).
TopicTypes(s) == IF s = "cam" THEN {"Image"} ELSE {"LaserScan", "Imu"}

\* The message types saveCollection stores labels for.
LabelledTypes == {"Image", "LaserScan", "PointCloud2"}

None == << >>
Some(x) == << x >>

VARIABLES
    \* --- the collector's fields
    sensors,              \* self.sensors: the registered sensor names
    msg_type,             \* self.sensors[s]['msg_type']
    order,                \* iteration order of self.sensors.iteritems()
    abstract_transforms,  \* self.abstract_transforms
    data_stamp,           \* self.data_stamp
    collections,          \* self.collections
    \* --- the labelers (self.sensor_labelers[s])
    lock,                 \* .lock: "free", "sync" or "labeler"
    msg,                  \* .msg (its header stamp)
    labels,               \* .labels
    \* --- the file system under output_folder
    doc,                  \* data_collected.json
    files,                \* the image files, by name
    \* --- saveCollection's position and locals
    pc, idx, stamps, average_time, max_delta, transforms,
    all_sensor_data_dict, all_sensor_labels_dict,
    \* --- history of the running attempt
    outcome, pre, queried,
    \* --- getAllAbstractTransforms (discovery)
    tf_parent, all_frames, fidx, transforms_list, dpc,
    \* --- reload of the document
    reloaded, doc2, ppc,
    \* --- saveCollection called from several threads
    tpc,                  \* position of each calling thread
    tidx,                 \* its index into the iteration of self.sensors
    \* --- __init__
    cpc,                  \* position of the constructor
    args,                 \* what its arguments name: folder and configuration
    isatty,               \* sys.stdin.isatty(), sys.stdout.isatty()
    interactive           \* its local of line 49

config_vars == <<sensors, msg_type, order, abstract_transforms>>
store_vars == <<data_stamp, collections>>
labeler_vars == <<msg, labels>>
disk_vars == <<doc, files>>
local_vars == <<idx, stamps, average_time, max_delta, transforms,
                all_sensor_data_dict, all_sensor_labels_dict>>
hist_vars == <<outcome, pre, queried>>
disc_vars == <<tf_parent, all_frames, fidx, transforms_list, dpc>>
persist_vars == <<reloaded, doc2, ppc>>
thread_vars == <<tpc, tidx>>
ctor_vars == <<cpc, args, isatty, interactive>>
other_vars == <<thread_vars, ctor_vars>>

vars == <<config_vars, store_vars, lock, labeler_vars, disk_vars, pc,
          local_vars, hist_vars, disc_vars, persist_vars,
                   other_vars>>

\* ------------------------------------------------------- pure functions

\* generateKey(parent, child): parent + '-' + child
generateKey(parent, child) == parent \o "-" \o child

DigitChars == <<"0", "1", "2", "3", "4", "5", "6", "7", "8", "9">>

\* Python's str() of a non-negative int, as its sequence of characters.
RECURSIVE str(_)
str(n) ==
    IF n < 10 THEN <<DigitChars[n + 1]>>
    ELSE str(n \div 10) \o <<DigitChars[(n % 10) + 1]>>

\* The code point order of the digit characters.
CharCode(c) == CHOOSE i \in 1..10 : DigitChars[i] = c

\* Python's < on two unicode strings of digits (lexicographic, a proper
\* prefix first).
RECURSIVE TextLess(_, _)
TextLess(a, b) ==
    IF a = << >> THEN b # << >>
    ELSE IF b = << >> THEN FALSE
    ELSE IF a[1] # b[1] THEN CharCode(a[1]) < CharCode(b[1])
    ELSE TextLess(Tail(a), Tail(b))

\* Python's < on two ints.
IntLess(a, b) == a < b

\* A string made of the characters of chars, in order.
RECURSIVE Join(_)
Join(chars) == IF chars = << >> THEN "" ELSE chars[1] \o Join(Tail(chars))

\* sorted() of a set of int keys: smallest first.
SortedInts(S) ==
    [i \in 1..Cardinality(S) |->
        CHOOSE x \in S : Cardinality({y \in S : IntLess(y, x)}) = i - 1]

\* sorted() of a set of text keys: smallest first.
SortedTexts(S) ==
    [i \in 1..Cardinality(S) |->
        CHOOSE x \in S : Cardinality({y \in S : TextLess(y, x)}) = i - 1]

\* The elements of a set as a list, in some fixed order.
RECURSIVE ListOf(_)
ListOf(S) ==
    IF S = {} THEN << >>
    ELSE LET x == CHOOSE y \in S : TRUE IN <<x>> \o ListOf(S \ {x})

Range(f) == {f[x] : x \in DOMAIN f}

Max(S) == CHOOSE x \in S : \A y \in S : y <= x
Min(S) == CHOOSE x \in S : \A y \in S : x <= y

\* utilities.getMaxTimeDelta: newest minus oldest stamp, None for fewer
\* than two stamps.
getMaxTimeDelta(st) ==
    IF Len(st) < 2 THEN None ELSE Some(Max(Range(st)) - Min(Range(st)))

\* utilities.getMaxTime: the newest stamp.
getMaxTime(st) == Max(Range(st))

\* f with key k set to v (a dict assignment f[k] = v).
Put(f, k, v) == [x \in DOMAIN f \cup {k} |-> IF x = k THEN v ELSE f[x]]

\* ------------------------------------------------ the transform client

NoFrame == ""

\* listener.chain(frame, now, world_link, now, world_link): the frames from
\* frame up to world_link in the tree, None when they are not connected.
RECURSIVE chain(_, _, _, _)
chain(tree, frame, world_link, fuel) ==
    IF frame = world_link THEN Some(<<world_link>>)
    ELSE IF fuel = 0 \/ frame \notin DOMAIN tree \/ tree[frame] = NoFrame
    THEN None
    ELSE LET rest == chain(tree, tree[frame], world_link, fuel - 1)
         IN IF rest = None THEN None ELSE Some(<<frame>> \o rest[1])

\* The entries one resolved chain adds to transforms_list.
ChainEntries(c) ==
    [i \in 1..(Len(c) - 1) |->
        [parent |-> c[i], child |-> c[i + 1],
         key |-> generateKey(c[i], c[i + 1])]]

\* uniq_l: the list of the distinct dicts of transforms_list.
Uniq(l) == ListOf(Range(l))

\* getAllAbstractTransforms over the frames of the list fs, when no wait
\* raises: unconnected frames are skipped.
RECURSIVE CollectEntries(_, _, _)
CollectEntries(tree, fs, world_link) ==
    IF fs = << >> THEN << >>
    ELSE LET c == chain(tree, Head(fs), world_link, Cardinality(DOMAIN tree))
         IN (IF c = None THEN << >> ELSE ChainEntries(c[1]))
            \o CollectEntries(tree, Tail(fs), world_link)

getAllAbstractTransforms(tree, fs, world_link) ==
    Uniq(CollectEntries(tree, fs, world_link))

\* ------------------------------------------------------------ the document

\* json.dumps(D, sort_keys=True) of the collections of the live dataset:
\* the items in the order of their int keys, each key rendered as text.
dumps(c) ==
    LET ks == SortedInts(DOMAIN c)
    IN [i \in 1..Len(ks) |-> <<str(ks[i]), c[ks[i]]>>]

\* json.load of a document: an object's keys are text.
loads(items) ==
    [t \in {items[i][1] : i \in DOMAIN items} |->
        LET i == CHOOSE j \in DOMAIN items : items[j][1] = t IN items[i][2]]

\* json.dumps(D, sort_keys=True) of a reloaded dataset: the items in the
\* order of their text keys.
dumpsReloaded(c) ==
    LET ks == SortedTexts(DOMAIN c)
    IN [i \in 1..Len(ks) |-> <<ks[i], c[ks[i]]>>]

Absent == [status |-> "absent", body |-> << >>]
Truncated == [status |-> "truncated", body |-> << >>]
Complete(c) == [status |-> "complete", body |-> dumps(c)]

\* ---------------------------------------------------- the collector: Init

WorldLink == "world"
CaptureFrames == <<"world", "base_link", "cam_link">>

\* The transform tree of the capture model (child frame -> parent frame).
CaptureTree ==
    [f \in {"world", "base_link", "cam_link"} |->
        IF f = "cam_link" THEN "base_link"
        ELSE IF f = "base_link" THEN "world" ELSE NoFrame]

IterationOrders(S) ==
    {q \in [1..Cardinality(S) -> S] : \A i, j \in DOMAIN q : i # j => q[i] # q[j]}

NoPre == [collections |-> << >>, data_stamp |-> 0, doc |-> Absent, files |-> << >>]

LocalsInit ==
    /\ idx = 1
    /\ stamps = << >>
    /\ average_time = 0
    /\ max_delta = None
    /\ transforms = << >>
    /\ all_sensor_data_dict = << >>
    /\ all_sensor_labels_dict = << >>

LocalsReset ==
    /\ idx' = 1
    /\ stamps' = << >>
    /\ average_time' = 0
    /\ max_delta' = None
    /\ transforms' = << >>
    /\ all_sensor_data_dict' = << >>
    /\ all_sensor_labels_dict' = << >>

DiscIdle ==
    /\ tf_parent = << >>
    /\ all_frames = << >>
    /\ fidx = 1
    /\ transforms_list = << >>
    /\ dpc = "off"

PersistIdle ==
    /\ reloaded = << >>
    /\ doc2 = << >>
    /\ ppc = "off"

\* No thread is calling saveCollection besides the one of pc.
ThreadsIdle ==
    /\ tpc = << >>
    /\ tidx = << >>

\* The constructor is not being followed.
CtorIdle ==
    /\ cpc = "off"
    /\ args = << >>
    /\ isatty = << >>
    /\ interactive = None

\* The collector as the constructor's lines 89-165 leave it.
Init ==
    /\ sensors \in (SUBSET SensorNames) \ {{}}
    /\ msg_type \in {f \in [sensors -> UNION {TopicTypes(s) : s \in SensorNames}] :
                        \A s \in sensors : f[s] \in TopicTypes(s)}
    /\ order \in IterationOrders(sensors)
    /\ abstract_transforms =
           getAllAbstractTransforms(CaptureTree, CaptureFrames, WorldLink)
    /\ data_stamp = 0
    /\ collections = << >>
    /\ lock = [s \in sensors |-> "free"]
    /\ msg = [s \in sensors |-> 0]
    /\ labels = [s \in sensors |-> 0]
    /\ doc = Absent
    /\ files = << >>
    /\ pc = "idle"
    /\ LocalsInit
    /\ outcome = "none"
    /\ pre = NoPre
    /\ queried = 0
    /\ DiscIdle
    /\ PersistIdle
    /\ ThreadsIdle
    /\ CtorIdle

\* ------------------------------------------------------- the labelers

\* A labeler takes its own lock before it replaces its message.
LabelerAcquire(s) ==
    /\ lock[s] = "free"
    /\ lock' = [lock EXCEPT ![s] = "labeler"]
    /\ UNCHANGED <<config_vars, store_vars, labeler_vars, disk_vars, pc,
                   local_vars, hist_vars, disc_vars, persist_vars,
                   other_vars>>

\* Holding its lock, a labeler stores the new message and its labels, and
\* releases the lock.
LabelerUpdate(s, t) ==
    /\ lock[s] = "labeler"
    /\ msg' = [msg EXCEPT ![s] = t]
    /\ labels' = [labels EXCEPT ![s] = t]
    /\ lock' = [lock EXCEPT ![s] = "free"]
    /\ UNCHANGED <<config_vars, store_vars, disk_vars, pc,
                   local_vars, hist_vars, disc_vars, persist_vars,
                   other_vars>>

\* --------------------------------------------------- saveCollection

\* An acquire that takes no lock.
acquireNoop(l, s) == l

\* lock.acquire() / lock.release() of the labeler of sensor s
acquire(l, s) == [l EXCEPT ![s] = "sync"]
release(l, s) == [l EXCEPT ![s] = "free"]

\* The comparison with >= in place of >.
ExceedsOrEqual(d) == d >= max_duration_bekween_msgs

\* The comparison against a threshold one tick too large.
ExceedsLax(d) == d > max_duration_bekween_msgs + 1

\* max_delta.to_sec() > float(config['max_duration_bekween_msgs'])
Exceeds(d) == d > max_duration_bekween_msgs

\* The None test inverted: an attempt with no delta is rejected.
RejectsWithoutDelta(d) == d = None \/ Exceeds(d[1])

\* Lines 220-221: a delta exists and is over the threshold.
Rejects(d) == d # None /\ Exceeds(d[1])

\* The exception caught and the capture carried on.
transformErrorSwallowed == "assemble"

\* Where control goes when waitForTransform or lookupTransform raises in
\* getTransforms: nothing catches it, saveCollection is left.
afterTransformError == "done"

\* A counter that skips a stamp.
skipStamp(n) == n + 2

\* A counter that is never advanced.
sameStamp(n) == n

\* self.data_stamp += 1
nextStamp(n) == n + 1

\* The oldest stamp used as the capture time.
captureTimeOldest(st) == Min(Range(st))

\* Line 200: average_time = getMaxTime(stamps)
captureTime(st) == getMaxTime(st)

\* A transform stored with parent and child exchanged.
storeTransformSwapped(t, ab, time) ==
    Put(t, generateKey(ab.parent, ab.child),
        [trans |-> time, quat |-> time, parent |-> ab.child, child |-> ab.parent])

\* Lines 176-178: the transform of ab looked up at time goes into the
\* dictionary under the key of ab.
storeTransform(t, ab, time) ==
    Put(t, generateKey(ab.parent, ab.child),
        [trans |-> time, quat |-> time, parent |-> ab.parent, child |-> ab.child])

\* The menu callback calls saveCollection.
Trigger ==
    /\ pc = "idle"
    /\ data_stamp < MaxCollections
    /\ pc' = "lock"
    /\ idx' = 1
    /\ outcome' = "running"
    /\ pre' = [collections |-> collections, data_stamp |-> data_stamp,
               doc |-> doc, files |-> files]
    /\ queried' = 0
    /\ UNCHANGED <<config_vars, store_vars, lock, labeler_vars, disk_vars,
                   stamps, average_time, max_delta, transforms,
                   all_sensor_data_dict, all_sensor_labels_dict,
                   disc_vars, persist_vars,
                   other_vars>>

\* lockAllLabelers: one blocking acquire per sensor, in iteration order.
LockStep ==
    /\ pc = "lock"
    /\ lock[order[idx]] = "free"
    /\ lock' = acquire(lock, order[idx])
    /\ idx' = IF idx = Len(order) THEN 1 ELSE idx + 1
    /\ pc' = IF idx = Len(order) THEN "audit" ELSE "lock"
    /\ UNCHANGED <<config_vars, store_vars, labeler_vars, disk_vars,
                   stamps, average_time, max_delta, transforms,
                   all_sensor_data_dict, all_sensor_labels_dict,
                   hist_vars, disc_vars, persist_vars,
                   other_vars>>

\* getLabelersTimeStatistics: the stamps of the labelers' messages.
Audit ==
    /\ pc = "audit"
    /\ LET st == [i \in 1..Len(order) |-> msg[order[i]]]
       IN /\ stamps' = st
          /\ max_delta' = getMaxTimeDelta(st)
          /\ average_time' = captureTime(st)
    /\ pc' = "check"
    /\ UNCHANGED <<config_vars, store_vars, lock, labeler_vars, disk_vars,
                   idx, transforms, all_sensor_data_dict,
                   all_sensor_labels_dict, hist_vars, disc_vars, persist_vars,
                   other_vars>>

\* Lines 220-227: the messages are close enough in time, or the attempt
\* is rejected.
Check ==
    /\ pc = "check"
    /\ IF Rejects(max_delta)
       THEN /\ pc' = "unlock"
            /\ outcome' = "rejected"
       ELSE /\ pc' = IF Len(abstract_transforms) = 0 THEN "assemble"
                     ELSE "transforms"
            /\ outcome' = outcome
    /\ idx' = 1
    /\ UNCHANGED <<config_vars, store_vars, lock, labeler_vars, disk_vars,
                   stamps, average_time, max_delta, transforms,
                   all_sensor_data_dict, all_sensor_labels_dict,
                   pre, queried, disc_vars, persist_vars,
                   other_vars>>

\* getTransforms, one abstract transform per step: the transform client
\* resolves it at the given time, or raises.
TransformStep ==
    /\ pc = "transforms"
    /\ queried' = queried + 1
    /\ LET ab == abstract_transforms[idx]
       IN \E resolved \in BOOLEAN :
            IF resolved
            THEN /\ transforms' = storeTransform(transforms, ab, average_time)
                 /\ idx' = IF idx = Len(abstract_transforms) THEN 1 ELSE idx + 1
                 /\ pc' = IF idx = Len(abstract_transforms) THEN "assemble"
                          ELSE "transforms"
                 /\ outcome' = outcome
            ELSE /\ pc' = afterTransformError
                 /\ outcome' = "TransformError"
                 /\ idx' = 1
                 /\ UNCHANGED transforms
    /\ UNCHANGED <<config_vars, store_vars, lock, labeler_vars, disk_vars,
                   stamps, average_time, max_delta,
                   all_sensor_data_dict, all_sensor_labels_dict,
                   pre, disc_vars, persist_vars,
                   other_vars>>

\* A file name without the data stamp.
filename_without_stamp(s, n) == s \o ".jpg"

\* sensor['_name'] + '_' + str(self.data_stamp) + '.jpg'
filename_relative(s, n) == s \o "_" \o Join(str(n)) \o ".jpg"

\* Lines 235-265, one sensor per step: the data and the labels of the
\* sensor go into the dictionaries; an image goes to a file.
AssembleStep ==
    /\ pc = "assemble"
    /\ LET s == order[idx]
           m == msg[s]
           l == labels[s]
           image == msg_type[s] = "Image"
           name == filename_relative(s, data_stamp)
       IN /\ files' = IF image THEN Put(files, name, m) ELSE files
          /\ all_sensor_data_dict' =
                Put(all_sensor_data_dict, s,
                    IF image THEN [stamp |-> m, data_file |-> name]
                    ELSE [stamp |-> m, data_file |-> ""])
          /\ IF msg_type[s] \in LabelledTypes
             THEN /\ all_sensor_labels_dict' = Put(all_sensor_labels_dict, s, l)
                  /\ idx' = IF idx = Len(order) THEN 1 ELSE idx + 1
                  /\ pc' = IF idx = Len(order) THEN "commit" ELSE "assemble"
                  /\ outcome' = outcome
             ELSE /\ pc' = "done"
                  /\ outcome' = "ValueError"
                  /\ UNCHANGED <<all_sensor_labels_dict, idx>>
    /\ UNCHANGED <<config_vars, store_vars, lock, labeler_vars, doc,
                   stamps, average_time, max_delta, transforms,
                   pre, queried, disc_vars, persist_vars,
                   other_vars>>

\* Lines 267-269: the record is stored under the current data_stamp.
Commit ==
    /\ pc = "commit"
    /\ collections' =
          Put(collections, data_stamp,
              [data |-> all_sensor_data_dict,
               labels |-> all_sensor_labels_dict,
               transforms |-> transforms])
    /\ data_stamp' = nextStamp(data_stamp)
    /\ pc' = "json_open"
    /\ UNCHANGED <<config_vars, lock, labeler_vars, disk_vars, local_vars,
                   hist_vars, disc_vars, persist_vars,
                   other_vars>>

\* The collections as they were when saveCollection was entered.
staleD == pre.collections

\* Line 272: D = {..., 'collections': self.collections, ...}
D == collections

\* createJSONFile, line 305: open(output_file, 'w') empties the file.
JsonOpen ==
    /\ pc = "json_open"
    /\ doc' = Truncated
    /\ pc' = "json_write"
    /\ UNCHANGED <<config_vars, store_vars, lock, labeler_vars, files,
                   local_vars, hist_vars, disc_vars, persist_vars,
                   other_vars>>

\* createJSONFile, lines 307-308: the document is written and closed, or
\* the write raises.
JsonWrite ==
    /\ pc = "json_write"
    /\ \E written \in BOOLEAN :
         IF written
         THEN /\ doc' = Complete(D)
              /\ pc' = "unlock"
              /\ outcome' = "committed"
         ELSE /\ doc' = doc
              /\ pc' = "done"
              /\ outcome' = "IOError"
    /\ UNCHANGED <<config_vars, store_vars, lock, labeler_vars, files,
                   local_vars, pre, queried, disc_vars, persist_vars,
                   other_vars>>

\* unlockAllLabelers: one release per sensor, in iteration order.
UnlockStep ==
    /\ pc = "unlock"
    /\ lock' = release(lock, order[idx])
    /\ idx' = IF idx = Len(order) THEN 1 ELSE idx + 1
    /\ pc' = IF idx = Len(order) THEN "done" ELSE "unlock"
    /\ UNCHANGED <<config_vars, store_vars, labeler_vars, disk_vars,
                   stamps, average_time, max_delta, transforms,
                   all_sensor_data_dict, all_sensor_labels_dict,
                   hist_vars, disc_vars, persist_vars,
                   other_vars>>

\* saveCollection has returned, or its exception has reached the caller.
Return ==
    /\ pc = "done"
    /\ pc' = "idle"
    /\ LocalsReset
    /\ outcome' = "none"
    /\ pre' = NoPre
    /\ queried' = 0
    /\ UNCHANGED <<config_vars, store_vars, lock, labeler_vars, disk_vars,
                   disc_vars, persist_vars,
                   other_vars>>

Next ==
    \/ \E s \in sensors : LabelerAcquire(s)
    \/ \E s \in sensors, t \in 0..MaxStamp : LabelerUpdate(s, t)
    \/ Trigger
    \/ LockStep
    \/ Audit
    \/ Check
    \/ TransformStep
    \/ AssembleStep
    \/ Commit
    \/ JsonOpen
    \/ JsonWrite
    \/ UnlockStep
    \/ Return

Spec == Init /\ [][Next]_vars

\* The same program, with the scheduling made explicit: a step of
\* saveCollection that can be taken is eventually taken, a thread that
\* finds a lock free again and again eventually gets it, and a labeler
\* that holds its lock finishes its update.
SyncStep ==
    \/ Audit \/ Check \/ TransformStep \/ AssembleStep \/ Commit
    \/ JsonOpen \/ JsonWrite \/ UnlockStep \/ Return

FairSpec ==
    /\ Init
    /\ [][Next]_vars
    /\ WF_vars(SyncStep)
    /\ SF_vars(LockStep)
    /\ \A s \in SensorNames :
         WF_vars(s \in sensors /\ \E t \in 0..MaxStamp : LabelerUpdate(s, t))

\* ------------------------------------- discovery of the abstract transforms

DiscWorld == "w"
DiscFrames == <<"w", "a", "b-c", "a-b", "c">>

\* The collector's own fields play no part in discovery or in the reload
\* of a document.
CollectorOff ==
    /\ sensors = {}
    /\ msg_type = << >>
    /\ order = << >>
    /\ lock = << >>
    /\ msg = << >>
    /\ labels = << >>
    /\ files = << >>
    /\ pc = "off"
    /\ LocalsInit
    /\ outcome = "none"
    /\ pre = NoPre
    /\ queried = 0

\* Every transform tree over the known frames: each frame but the world
\* link has one parent or none, and no frame is its own ancestor.
TransformTrees ==
    LET fs == Range(DiscFrames)
    IN {t \in [fs -> fs \cup {NoFrame}] :
          /\ t[DiscWorld] = NoFrame
          /\ \A f \in fs \ {DiscWorld} :
               \/ chain(t, f, DiscWorld, Cardinality(fs)) # None
               \/ \E r \in fs \ {DiscWorld} :
                    t[r] = NoFrame /\ chain(t, f, r, Cardinality(fs)) # None}

DiscInit ==
    /\ tf_parent \in TransformTrees
    /\ all_frames = DiscFrames
    /\ fidx = 1
    /\ transforms_list = << >>
    /\ dpc = "loop"
    /\ abstract_transforms = << >>
    /\ data_stamp = 0
    /\ collections = << >>
    /\ doc = Absent
    /\ CollectorOff
    /\ PersistIdle
    /\ ThreadsIdle
    /\ CtorIdle

\* Lines 285-297, one frame per step: the chain of the frame to the world
\* link is added pair by pair; a frame whose lookup raises one of the
\* three caught exceptions is skipped, any other exception leaves the
\* function.
DiscoverFrame ==
    /\ dpc = "loop"
    /\ fidx <= Len(all_frames)
    /\ LET c == chain(tf_parent, all_frames[fidx], DiscWorld, Len(all_frames))
       IN IF c # None
          THEN /\ transforms_list' = transforms_list \o ChainEntries(c[1])
               /\ fidx' = fidx + 1
               /\ dpc' = dpc
          ELSE \E caught \in BOOLEAN :
                 /\ transforms_list' = transforms_list
                 /\ fidx' = IF caught THEN fidx + 1 ELSE fidx
                 /\ dpc' = IF caught THEN dpc ELSE "raised"
    /\ UNCHANGED <<config_vars, store_vars, lock, labeler_vars, disk_vars, pc,
                   local_vars, hist_vars, tf_parent, all_frames, persist_vars,
                   other_vars>>

\* Lines 300-301: the distinct entries are returned.
DiscoverReturn ==
    /\ dpc = "loop"
    /\ fidx > Len(all_frames)
    /\ abstract_transforms' = Uniq(transforms_list)
    /\ dpc' = "done"
    /\ UNCHANGED <<sensors, msg_type, order, store_vars, lock, labeler_vars,
                   disk_vars, pc, local_vars, hist_vars, tf_parent, all_frames,
                   fidx, transforms_list, persist_vars,
                   other_vars>>

DiscNext == DiscoverFrame \/ DiscoverReturn

DiscSpec == DiscInit /\ [][DiscNext]_vars

\* --------------------------------------------- reload of the document

\* The record a capture of the single sensor cam stores under stamp k when
\* its message has stamp t and the transforms resolve.
PersistedRecord(k, t) ==
    [data |-> [cam |-> [stamp |-> t, data_file |-> filename_relative("cam", k)]],
     labels |-> [cam |-> t],
     transforms |->
        [key \in {generateKey("base_link", "world")} |->
            [trans |-> t, quat |-> t, parent |-> "base_link", child |-> "world"]]]

\* A dataset of n collections, as n captures leave it.
PersistInit ==
    /\ \E n \in 0..MaxPersist, t0 \in 0..MaxStamp :
         /\ collections = [k \in 0..(n - 1) |-> PersistedRecord(k, (t0 + k) % (MaxStamp + 1))]
         /\ data_stamp = n
    /\ doc = Absent
    /\ abstract_transforms = << >>
    /\ reloaded = << >>
    /\ doc2 = << >>
    /\ ppc = "live"
    /\ CollectorOff
    /\ DiscIdle
    /\ ThreadsIdle
    /\ CtorIdle

\* createJSONFile writes the dataset.
Persist ==
    /\ ppc = "live"
    /\ doc' = Complete(collections)
    /\ ppc' = "persisted"
    /\ UNCHANGED <<config_vars, store_vars, lock, labeler_vars, files, pc,
                   local_vars, hist_vars, disc_vars, reloaded, doc2,
                   other_vars>>

\* The document is read back.
Reload ==
    /\ ppc = "persisted"
    /\ reloaded' = loads(doc.body)
    /\ ppc' = "reloaded"
    /\ UNCHANGED <<config_vars, store_vars, lock, labeler_vars, disk_vars, pc,
                   local_vars, hist_vars, disc_vars, doc2, other_vars>>

\* The reloaded value is serialized with the same call.
Reserialize ==
    /\ ppc = "reloaded"
    /\ doc2' = dumpsReloaded(reloaded)
    /\ ppc' = "reserialized"
    /\ UNCHANGED <<config_vars, store_vars, lock, labeler_vars, disk_vars, pc,
                   local_vars, hist_vars, disc_vars, reloaded, other_vars>>

PersistNext == Persist \/ Reload \/ Reserialize

PersistSpec == PersistInit /\ [][PersistNext]_vars

\* ------------------------------ saveCollection called from two threads

Threads == {"t1", "t2"}

\* The second thread iterating the registry in the opposite order.
lockOrderOpposite(t) ==
    IF t = "t1" THEN order
    ELSE [i \in DOMAIN order |-> order[Len(order) + 1 - i]]

\* Lines 183 and 188: every call iterates the same self.sensors.
lockOrder(t) == order

\* getTransforms: the entries of the abstract transforms of the list abs,
\* all looked up at time.
RECURSIVE getTransforms(_, _)
getTransforms(abs, time) ==
    IF abs = << >> THEN << >>
    ELSE storeTransform(getTransforms(SubSeq(abs, 1, Len(abs) - 1), time),
                        abs[Len(abs)], time)

\* Lines 235-265 for supported message kinds: the data entry of sensor s
\* in the record stored under stamp n.
sensorData(s, n) ==
    IF msg_type[s] = "Image"
    THEN [stamp |-> msg[s], data_file |-> filename_relative(s, n)]
    ELSE [stamp |-> msg[s], data_file |-> ""]

\* The collector as in Init, every sensor of a supported message kind, and
\* two threads that may call saveCollection.
ThreadInit ==
    /\ sensors \in (SUBSET SensorNames) \ {{}}
    /\ msg_type \in {f \in [sensors -> LabelledTypes] :
                        \A s \in sensors : f[s] \in TopicTypes(s)}
    /\ order \in IterationOrders(sensors)
    /\ abstract_transforms =
           getAllAbstractTransforms(CaptureTree, CaptureFrames, WorldLink)
    /\ data_stamp = 0
    /\ collections = << >>
    /\ lock = [s \in sensors |-> "free"]
    /\ msg = [s \in sensors |-> 0]
    /\ labels = [s \in sensors |-> 0]
    /\ doc = Absent
    /\ files = << >>
    /\ pc = "off"
    /\ LocalsInit
    /\ outcome = "none"
    /\ pre = NoPre
    /\ queried = 0
    /\ DiscIdle
    /\ PersistIdle
    /\ CtorIdle
    /\ tpc = [t \in Threads |-> "idle"]
    /\ tidx = [t \in Threads |-> 1]

\* A thread calls saveCollection.
ThreadCall(t) ==
    /\ tpc[t] = "idle"
    /\ data_stamp < MaxCollections
    /\ tpc' = [tpc EXCEPT ![t] = "lock"]
    /\ tidx' = [tidx EXCEPT ![t] = 1]
    /\ UNCHANGED <<config_vars, store_vars, lock, labeler_vars, disk_vars, pc,
                   local_vars, hist_vars, disc_vars, persist_vars, ctor_vars>>

\* lockAllLabelers in thread t: one blocking acquire per sensor.
ThreadLock(t) ==
    /\ tpc[t] = "lock"
    /\ lock[lockOrder(t)[tidx[t]]] = "free"
    /\ lock' = [lock EXCEPT ![lockOrder(t)[tidx[t]]] = t]
    /\ tidx' = [tidx EXCEPT ![t] = IF tidx[t] = Len(order) THEN 1 ELSE tidx[t] + 1]
    /\ tpc' = [tpc EXCEPT ![t] = IF tidx[t] = Len(order) THEN "run" ELSE "lock"]
    /\ UNCHANGED <<config_vars, store_vars, labeler_vars, disk_vars, pc,
                   local_vars, hist_vars, disc_vars, persist_vars, ctor_vars>>

\* Lines 218-273 in thread t, with every lock held and nothing raised: the
\* attempt is rejected, or its record is stored and the document written.
ThreadCapture(t) ==
    /\ tpc[t] = "run"
    /\ LET st == [i \in 1..Len(order) |-> msg[order[i]]]
           record == [data |-> [s \in sensors |-> sensorData(s, data_stamp)],
                      labels |-> [s \in sensors |-> labels[s]],
                      transforms |-> getTransforms(abstract_transforms,
                                                   captureTime(st))]
           images == {s \in sensors : msg_type[s] = "Image"}
       IN IF Rejects(getMaxTimeDelta(st))
          THEN UNCHANGED <<store_vars, disk_vars>>
          ELSE /\ collections' = Put(collections, data_stamp, record)
               /\ data_stamp' = nextStamp(data_stamp)
               /\ files' = [f \in DOMAIN files \cup
                                  {filename_relative(s, data_stamp) : s \in images} |->
                              IF \E s \in images : f = filename_relative(s, data_stamp)
                              THEN msg[CHOOSE s \in images :
                                          f = filename_relative(s, data_stamp)]
                              ELSE files[f]]
               /\ doc' = Complete(collections')
    /\ tpc' = [tpc EXCEPT ![t] = "unlock"]
    /\ tidx' = [tidx EXCEPT ![t] = 1]
    /\ UNCHANGED <<config_vars, lock, labeler_vars, pc, local_vars, hist_vars,
                   disc_vars, persist_vars, ctor_vars>>

\* unlockAllLabelers in thread t; saveCollection then returns.
ThreadUnlock(t) ==
    /\ tpc[t] = "unlock"
    /\ lock' = release(lock, lockOrder(t)[tidx[t]])
    /\ tidx' = [tidx EXCEPT ![t] = IF tidx[t] = Len(order) THEN 1 ELSE tidx[t] + 1]
    /\ tpc' = [tpc EXCEPT ![t] = IF tidx[t] = Len(order) THEN "idle" ELSE "unlock"]
    /\ UNCHANGED <<config_vars, store_vars, labeler_vars, disk_vars, pc,
                   local_vars, hist_vars, disc_vars, persist_vars, ctor_vars>>

\* The stamps the labelers receive while two threads capture: the
\* earliest and the latest, so attempts are accepted and rejected.
ThreadStamps == {0, MaxStamp}

ThreadNext ==
    \/ \E s \in sensors : LabelerAcquire(s)
    \/ \E s \in sensors, t \in ThreadStamps : LabelerUpdate(s, t)
    \/ \E t \in Threads : ThreadCall(t)
    \/ \E t \in Threads : ThreadLock(t)
    \/ \E t \in Threads : ThreadCapture(t)
    \/ \E t \in Threads : ThreadUnlock(t)

ThreadSpec == ThreadInit /\ [][ThreadNext]_vars

\* The same, with the scheduling made explicit: a thread that can go on
\* does, a thread that finds a lock free again and again eventually gets
\* it, and a labeler that holds its lock finishes its update.
ThreadFairSpec ==
    /\ ThreadInit
    /\ [][ThreadNext]_vars
    /\ \A t \in Threads :
         /\ SF_vars(ThreadLock(t))
         /\ WF_vars(ThreadCapture(t))
         /\ WF_vars(ThreadUnlock(t))
    /\ \A s \in SensorNames :
         WF_vars(s \in sensors /\ \E t \in ThreadStamps : LabelerUpdate(s, t))

\* ------------------------------------------------------------- __init__

\* The configurations the calibration file may hold: any of the sensors,
\* each with one of its topic's message kinds.
Configurations ==
    UNION {{f \in [S -> UNION {TopicTypes(s) : s \in SensorNames}] :
               \A s \in S : f[s] \in TopicTypes(s)} : S \in SUBSET SensorNames}

\* DataCollectorAndLabeler(args, server, menu_handler) is called: no field
\* of the object is set yet.
CtorInit ==
    /\ cpc = "start"
    /\ args \in [output_folder_exists : BOOLEAN, sensors : Configurations]
    /\ isatty \in [stdin : BOOLEAN, stdout : BOOLEAN]
    /\ interactive = None
    /\ abstract_transforms = << >>
    /\ data_stamp = 0
    /\ collections = << >>
    /\ doc = Absent
    /\ CollectorOff
    /\ DiscIdle
    /\ PersistIdle
    /\ ThreadsIdle

\* Lines 49-50: interactive is computed and printed.
CtorInteractive ==
    /\ cpc = "start"
    /\ interactive' = Some(isatty.stdin /\ isatty.stdout)
    /\ cpc' = "printed"
    /\ UNCHANGED <<config_vars, store_vars, lock, labeler_vars, disk_vars, pc,
                   local_vars, hist_vars, disc_vars, persist_vars, thread_vars,
                   args, isatty>>

\* Line 51: exit(0) ends the process; lines 53-165 are never reached.
CtorExit ==
    /\ cpc = "printed"
    /\ cpc' = "exited"
    /\ UNCHANGED <<config_vars, store_vars, lock, labeler_vars, disk_vars, pc,
                   local_vars, hist_vars, disc_vars, persist_vars, thread_vars,
                   args, isatty, interactive>>

CtorNext == CtorInteractive \/ CtorExit

CtorSpec == CtorInit /\ [][CtorNext]_vars

\* ================================================================ claims

Threshold == max_duration_bekween_msgs

\* Control is outside saveCollection: not called, returned, or left by an
\* exception.
NoAttemptInProgress == pc \in {"idle", "done"}

\* The spread of the stamps the audit of the running attempt read.
AuditSpread == Max(Range(stamps)) - Min(Range(stamps))

\* The audit of the running attempt is over.
Audited == pc \in {"check", "transforms", "assemble", "commit", "json_open",
                   "json_write", "unlock", "done"} /\ stamps # << >>

AbstractKeys == {abstract_transforms[i].key : i \in DOMAIN abstract_transforms}

\* Every transform the running attempt has asked for was resolved.
NoLookupFailed == Cardinality(DOMAIN transforms) = queried

\* The key under which the running attempt stores its record: the highest
\* stamp before the attempt plus one, 0 for the first collection.
NewKey ==
    IF DOMAIN pre.collections = {} THEN 0 ELSE Max(DOMAIN pre.collections) + 1

\* The running attempt has stored exactly one more record, under NewKey.
OneMoreCollection ==
    /\ DOMAIN collections = DOMAIN pre.collections \cup {NewKey}
    /\ Cardinality(DOMAIN collections) = Cardinality(DOMAIN pre.collections) + 1
    /\ \A k \in DOMAIN pre.collections : collections[k] = pre.collections[k]
    /\ pre.data_stamp = NewKey

\* C1: whenever control is outside saveCollection (the attempt committed,
\* was rejected, or failed in getTransforms, in payload assembly or while
\* writing the document), the synchronizer holds no labeler lock.
C1_LocksReleasedOnEveryExit ==
    NoAttemptInProgress => \A s \in sensors : lock[s] # "sync"

\* C2 as stated: an attempt with two or more sensors whose stamps are at
\* most the threshold apart and none of whose transform lookups failed ends with
\* exactly one more collection, stored under the previous highest stamp
\* plus one (0 for the first).
C2_AcceptedCaptureAddsOne ==
    (/\ pc = "done"
     /\ Len(stamps) >= 2
     /\ AuditSpread <= Threshold
     /\ NoLookupFailed)
    => OneMoreCollection

\* C2 as amended: the same, for an attempt none of whose sensors has a
\* message type outside Image, LaserScan, PointCloud2.
C2_AcceptedSupportedCaptureAddsOne ==
    (/\ pc = "done"
     /\ Len(stamps) >= 2
     /\ AuditSpread <= Threshold
     /\ NoLookupFailed
     /\ \A s \in sensors : msg_type[s] \in {"Image", "LaserScan", "PointCloud2"})
    => OneMoreCollection

\* An attempt over two sensors whose stamps were exactly the threshold
\* apart has returned after storing the second collection.
C2_Witness ==
    /\ pc = "done"
    /\ Len(stamps) >= 2
    /\ AuditSpread = Threshold
    /\ outcome = "committed"
    /\ pre.data_stamp = 1
    /\ DOMAIN collections = {0, 1}

\* C3: once the audit has read stamps more than the threshold apart, the
\* attempt only unlocks and returns None; the collections, data_stamp, the
\* document and the image files are as before the attempt, no transform
\* has been queried and no part of a record has been built.
C3_SkewedCaptureRejected ==
    (Audited /\ pc # "check" /\ Len(stamps) >= 2 /\ AuditSpread > Threshold)
    => /\ pc \in {"unlock", "done"}
       /\ outcome = "rejected"
       /\ collections = pre.collections
       /\ data_stamp = pre.data_stamp
       /\ doc = pre.doc
       /\ files = pre.files
       /\ queried = 0
       /\ transforms = << >>
       /\ all_sensor_data_dict = << >>
       /\ all_sensor_labels_dict = << >>

\* A rejected attempt has returned, with a collection already stored and
\* persisted before it.
C3_Witness ==
    /\ pc = "done"
    /\ outcome = "rejected"
    /\ AuditSpread > Threshold
    /\ pre.data_stamp = 1
    /\ pre.doc.status = "complete"

\* C4: when an attempt whose audit passed has left saveCollection with an
\* abstract transform unresolved, the collections map, data_stamp and the
\* document are as before the attempt.
C4_TransformFailureLeavesDataset ==
    (/\ pc = "done"
     /\ queried > 0
     /\ DOMAIN transforms # AbstractKeys)
    => /\ collections = pre.collections
       /\ data_stamp = pre.data_stamp
       /\ doc = pre.doc

\* The second abstract transform failed to resolve in an attempt that
\* followed a stored collection.
C4_Witness ==
    /\ pc = "done"
    /\ outcome = "TransformError"
    /\ queried = 2
    /\ pre.data_stamp = 1
    /\ collections # << >>

\* C5: an attempt that waits for the labeler locks eventually leaves
\* saveCollection with an outcome, and a lock the synchronizer holds is
\* eventually not held by it.
C5_SubsequentCaptureProceeds ==
    /\ (pc = "lock") ~> (pc = "done")
    /\ \A s \in SensorNames :
         (s \in sensors /\ lock[s] = "sync") ~> (s \in sensors /\ lock[s] # "sync")

\* C6: the keys of the collections map are exactly 0 .. data_stamp - 1.
C6_StampsGapFree == DOMAIN collections = 0..(data_stamp - 1)

\* Two collections are stored, the second by an attempt whose write of the
\* document failed.
C6_Witness ==
    /\ data_stamp = 2
    /\ DOMAIN collections = {0, 1}
    /\ pc = "done"
    /\ outcome = "IOError"

\* C7: every stored record holds, for each sensor, a message with the
\* labels made for it; for two or more sensors the stamps of the stored
\* messages are at most the threshold apart; and the record of the running
\* attempt holds the messages whose stamps the audit read.
C7_ConsistentSnapshot ==
    /\ \A k \in DOMAIN collections :
         /\ \A s \in sensors : collections[k].labels[s] = collections[k].data[s].stamp
         /\ \A s1, s2 \in sensors :
              collections[k].data[s1].stamp - collections[k].data[s2].stamp <= Threshold
    /\ (pc \in {"json_open", "json_write", "unlock", "done"}
        /\ pre.data_stamp \in DOMAIN collections
        /\ collections # pre.collections)
       => \A i \in DOMAIN order :
            collections[pre.data_stamp].data[order[i]].stamp = stamps[i]

\* A record of two sensors with different stamps is stored, and both
\* labelers have replaced their messages since.
C7_Witness ==
    /\ sensors = {"cam", "lidar"}
    /\ pc = "idle"
    /\ 0 \in DOMAIN collections
    /\ collections[0].data["cam"].stamp = 2
    /\ collections[0].data["lidar"].stamp = 1
    /\ msg["cam"] = 0
    /\ msg["lidar"] = 2

\* C8: the list getAllAbstractTransforms returns holds no two entries with
\* the same key.
C8_NoDuplicateEdgeKeys ==
    dpc = "done" =>
        \A i, j \in DOMAIN abstract_transforms :
            i # j => abstract_transforms[i].key # abstract_transforms[j].key

\* C9: from the start of createJSONFile until it has completed, also when
\* the write has failed, the document holds the dataset persisted before
\* the attempt.
C9_PreviousDocumentSurvives ==
    (/\ pre.doc.status = "complete"
     /\ \/ pc = "json_write"
        \/ pc = "done" /\ outcome = "IOError")
    => doc = pre.doc

\* C10: the document made from the reloaded dataset is the document that
\* was persisted.
C10_ReloadRoundTrip ==
    ppc = "reserialized" => doc2 = doc.body

\* The Image payloads of the committed records, as (data_stamp, sensor).
ImagePayloads ==
    {p \in (DOMAIN collections) \X sensors : msg_type[p[2]] = "Image"}

\* The file name a committed Image payload refers to.
FileNameOf(p) == collections[p[1]].data[p[2]].data_file

\* Sensor names that end in digits or in the separator, next to the
\* configured ones.
FileSensorNames == SensorNames \cup {"cam_1", "cam_", "cam_1_"}

\* C11: a capture that commits stores its record under a data_stamp no
\* earlier record has; the file names <sensor_name>_<data_stamp>.jpg of two
\* distinct (sensor name, data_stamp) pairs differ (the name a capture has
\* just stored is compared with that of every other pair, sensor names
\* ending in digits or separators included); and the file of every
\* committed Image payload still holds the image of that payload, so no
\* committed record's image file was overwritten by another committed record.
C11_ImageFilesNeverShared ==
    /\ (pc \in {"json_open", "json_write"}) =>
          pre.data_stamp \notin DOMAIN pre.collections
    /\ \A p, q \in ImagePayloads : p # q => FileNameOf(p) # FileNameOf(q)
    /\ (pc = "json_open") =>
          \A p \in ImagePayloads : \A s \in FileSensorNames :
             \A n \in 0..(MaxCollections + 9) :
                (p[1] = pre.data_stamp /\ FileNameOf(p) = filename_relative(s, n))
                   => (s = p[2] /\ n = p[1])
    /\ \A p \in ImagePayloads :
          /\ FileNameOf(p) = filename_relative(p[2], p[1])
          /\ FileNameOf(p) \in DOMAIN files
          /\ files[FileNameOf(p)] = collections[p[1]].data[p[2]].stamp

\* Two captures of the camera with different images are committed and both
\* image files are on disk.
C11_Witness ==
    /\ pc = "done"
    /\ outcome = "committed"
    /\ DOMAIN collections = {0, 1}
    /\ "cam" \in sensors
    /\ msg_type["cam"] = "Image"
    /\ collections[0].data["cam"].stamp # collections[1].data["cam"].stamp
    /\ files["cam_0.jpg"] = collections[0].data["cam"].stamp
    /\ files["cam_1.jpg"] = collections[1].data["cam"].stamp

\* C12: with exactly one sensor registered the audit computes no maximum
\* delta and the temporal check never rejects, whatever the timestamp and
\* the threshold: the attempt goes on to transform resolution.
C12_SingleSensorNeverRejected ==
    (Cardinality(sensors) = 1 /\ Audited) =>
        /\ max_delta = None
        /\ outcome # "rejected"
        /\ pc = "unlock" => outcome = "committed"

\* A single-sensor attempt with the latest possible stamp has passed the
\* check and resolves transforms.
C12_Witness ==
    /\ Cardinality(sensors) = 1
    /\ pc = "transforms"
    /\ stamps = <<MaxStamp>>
    /\ max_delta = None
    /\ queried = 1

\* C13: in every committed record the 'labels' and 'data' key sets are the
\* sensor names of the registry, the 'transforms' key set is the set of
\* edge keys of the abstract transform set, and every transform entry
\* carries the parent and child of an edge with its key.
C13_RecordKeySets ==
    \A k \in DOMAIN collections :
        /\ DOMAIN collections[k].labels = sensors
        /\ DOMAIN collections[k].data = sensors
        /\ DOMAIN collections[k].transforms = AbstractKeys
        /\ \A key \in DOMAIN collections[k].transforms :
              \E i \in DOMAIN abstract_transforms :
                 /\ abstract_transforms[i].key = key
                 /\ abstract_transforms[i].parent = collections[k].transforms[key].parent
                 /\ abstract_transforms[i].child = collections[k].transforms[key].child

\* A record of two sensors and two transforms is committed.
C13_Witness ==
    /\ sensors = {"cam", "lidar"}
    /\ pc = "done"
    /\ outcome = "committed"
    /\ 0 \in DOMAIN collections
    /\ DOMAIN collections[0].data = {"cam", "lidar"}
    /\ Cardinality(DOMAIN collections[0].transforms) = 2

\* C14: the dataset is append-only: a record stored under a data_stamp is
\* the same record under the same data_stamp after every step, and no step
\* changes the sensor registry or the abstract transform set.
C14_AppendOnly ==
    [][/\ \A k \in DOMAIN collections :
             k \in DOMAIN collections' /\ collections'[k] = collections[k]
       /\ sensors' = sensors
       /\ msg_type' = msg_type
       /\ order' = order
       /\ abstract_transforms' = abstract_transforms]_vars

\* A second, different record has been committed after the first, and the
\* labelers have replaced their messages since.
C14_Witness ==
    /\ pc = "idle"
    /\ DOMAIN collections = {0, 1}
    /\ collections[0] # collections[1]
    /\ \E s \in sensors : msg[s] # collections[1].data[s].stamp

\* The known frames whose chain to the world link resolves.
ResolvedFrames ==
    {f \in Range(all_frames) :
        chain(tf_parent, f, DiscWorld, Len(all_frames)) # None}

\* The adjacent pairs of the chains of the resolved frames.
ResolvedPairs ==
    UNION {Range(ChainEntries(chain(tf_parent, f, DiscWorld, Len(all_frames))[1])) :
             f \in ResolvedFrames}

\* C15: getAllAbstractTransforms is never aborted by a frame whose wait or
\* chain lookup to the world link fails: the frame is skipped, discovery
\* completes whatever frames fail, and what it returns is exactly the
\* deduplicated set of adjacent pairs of the chains that resolved.
C15_FailingFramesSkipped ==
    /\ dpc # "raised"
    /\ dpc = "done" =>
          /\ Range(abstract_transforms) = ResolvedPairs
          /\ Len(abstract_transforms) = Cardinality(ResolvedPairs)

\* The ascending order of the sensor names of SensorNames.
NameLess(a, b) == a = "cam" /\ b = "lidar"

\* C16: lockAllLabelers acquires the labeler locks in ascending order of
\* sensor name: while it is acquiring, every lock it has taken belongs to
\* a sensor whose name is smaller than that of every sensor it has yet to
\* lock, whatever the order the registry iterates in.
C16_LocksTakenInNameOrder ==
    (pc = "lock" /\ idx > 1) =>
        \A i \in 1..(idx - 1) : \A j \in idx..Len(order) :
            /\ lock[order[i]] = "sync"
            /\ NameLess(order[i], order[j])

\* The synchronizer holds the lock of every labeler.
AllLocksHeld == \A s \in sensors : lock[s] = "sync"

\* The running attempt was rejected or failed before it stored a record.
RejectedOrFailed == outcome \in {"rejected", "TransformError", "ValueError"}

\* C18: the document is written once per successful capture, after the
\* record is appended and before any lock is released, and never by a
\* rejected or failed capture: up to the append the document is as the
\* attempt found it, the write happens with every lock held, a capture
\* that was rejected or failed has left the document alone, and from the
\* first unlock of a successful capture on the document holds exactly the
\* collections in memory.
C18_DocumentFollowsCommit ==
    /\ (pc \in {"lock", "audit", "check", "transforms", "assemble", "commit",
                "json_open"}) => doc = pre.doc
    /\ (pc \notin {"idle", "off"} /\ doc # pre.doc) =>
          /\ pre.data_stamp \in DOMAIN collections
          /\ DOMAIN pre.collections = DOMAIN collections \ {pre.data_stamp}
    /\ (pc \in {"json_open", "json_write"}) => AllLocksHeld
    /\ (pc = "unlock" /\ idx = 1 /\ outcome = "committed") => AllLocksHeld
    /\ (pc \in {"unlock", "done"} /\ RejectedOrFailed) => doc = pre.doc
    /\ (pc \in {"unlock", "done"} /\ outcome = "committed") =>
          /\ doc = Complete(collections)
          /\ doc # pre.doc

\* The second successful capture has returned: the document it found held
\* one collection and now holds both.
C18_Witness ==
    /\ pc = "done"
    /\ outcome = "committed"
    /\ DOMAIN collections = {0, 1}
    /\ pre.doc = Complete(pre.collections)
    /\ DOMAIN pre.collections = {0}
    /\ doc = Complete(collections)

\* The stamps of the messages stored in record k.
RecordStamps(k) == {collections[k].data[s].stamp : s \in sensors}

Blocked(t) == tpc[t] = "lock" /\ lock[lockOrder(t)[tidx[t]]] # "free"

\* Some thread waits for a lock, and nothing can move but new calls: every
\* thread is blocked or not calling, and no labeler holds a lock it will
\* release.
Deadlocked ==
    /\ \E t \in Threads : Blocked(t)
    /\ \A t \in Threads : Blocked(t) \/ tpc[t] = "idle"
    /\ \A s \in sensors : lock[s] # "labeler"

C20_ConstructorLeavesCollectorReady ==
    /\ (cpc \in {"exited", "returned"}) =>
          /\ cpc = "returned"
          /\ sensors = DOMAIN args.sensors
          /\ \A s \in sensors : msg_type[s] = args.sensors[s]
          /\ DOMAIN lock = sensors
          /\ data_stamp = 0
          /\ collections = << >>
          /\ dpc = "done"
    /\ (pc # "off") => cpc = "returned"

\* C21: a capture attempt that fails because a sensor's message kind is
\* outside the supported set leaves no trace: collections and data_stamp
\* are as the attempt found them, the document is not written, no image
\* file was written by the attempt, and every image file on disk is the
\* file of an Image payload of a committed record.
C21_UnsupportedKindLeavesNoTrace ==
    (pc = "done" /\ outcome = "ValueError") =>
        /\ collections = pre.collections
        /\ data_stamp = pre.data_stamp
        /\ doc = pre.doc
        /\ files = pre.files
        /\ \A f \in DOMAIN files : \E p \in ImagePayloads : FileNameOf(p) = f

====
